---------------------------- MODULE Spec2Model ----------------------------
(***************************************************************************)
(* Model of the devevents repository:                                      *)
(*   - src/database/event.model.ts     the Event schema and pre-save hook  *)
(*   - src/app/api/events/[slug]/route.ts   GET /api/events/[slug]         *)
(*                                                                         *)
(* Strings are sequences of characters over a small alphabet holding one   *)
(* representative of every character class the code distinguishes.         *)
(***************************************************************************)
EXTENDS Integers, Sequences, FiniteSets, TLC

(* ------------------------------ bounds -------------------------------- *)
\* longest raw slug a request carries (SpecLookup)
MaxSlugLen == 2
\* longest title given to a new document (SpecSlug)
MaxTitleLen == 4
\* number of GET requests in flight at once (SpecConc)
NumReqs == 2
\* cap on the counter of connect() calls
MaxAttempts == 2

(* ----------------------------- characters ----------------------------- *)
\* "a": a lowercase letter, "A": an uppercase letter, "1": a digit,
\* "-": hyphen, "_": underscore, " ": whitespace, "!": punctuation
Alphabet == {"a", "A", "1", "-", "_", " ", "!"}

Strs(n) == UNION {[1..k -> Alphabet] : k \in 0..n}

\* /\s/
IsSpace(c) == c = " "

\* /\w/ is [A-Za-z0-9_]
IsWord(c) == c \in {"a", "A", "1", "_"}

\* /[a-z0-9-]/
IsSlugChar(c) == c \in {"a", "1", "-"}

LowerChar(c) == IF c = "A" THEN "a" ELSE c

\* String.prototype.toLowerCase
ToLowerCase(s) == [i \in 1..Len(s) |-> LowerChar(s[i])]

RECURSIVE TrimStart(_)
TrimStart(s) ==
  IF s # <<>> /\ IsSpace(Head(s)) THEN TrimStart(Tail(s)) ELSE s

RECURSIVE TrimEnd(_)
TrimEnd(s) ==
  IF s # <<>> /\ IsSpace(s[Len(s)]) THEN TrimEnd(SubSeq(s, 1, Len(s) - 1)) ELSE s

\* String.prototype.trim
Trim(s) == TrimEnd(TrimStart(s))

(* --------------------- slug derivation (pre-save) --------------------- *)
\* .replace(/[^\w\s-]/g, '')
RemoveSpecial(s) == SelectSeq(s, LAMBDA c : IsWord(c) \/ IsSpace(c) \/ c = "-")

\* replace every maximal run, minLen or more long, of characters of the
\* class by one "-"
RECURSIVE ReplaceRuns(_, _, _)
ReplaceRuns(s, class, minLen) ==
  IF s = <<>> THEN <<>>
  ELSE IF Head(s) \notin class
  THEN <<Head(s)>> \o ReplaceRuns(Tail(s), class, minLen)
  ELSE LET n == CHOOSE k \in 1..Len(s) :
                  /\ \A i \in 1..k : s[i] \in class
                  /\ (k = Len(s) \/ s[k + 1] \notin class)
           rest == ReplaceRuns(SubSeq(s, n + 1, Len(s)), class, minLen)
       IN IF n >= minLen THEN <<"-">> \o rest ELSE SubSeq(s, 1, n) \o rest

\* .replace(/\s+/g, '-')
SpacesToHyphens(s) == ReplaceRuns(s, {c \in Alphabet : IsSpace(c)}, 1)

\* .replace(/--+/g, '-')
CollapseHyphens(s) == ReplaceRuns(s, {"-"}, 2)

RECURSIVE StripLeadingHyphens(_)
StripLeadingHyphens(s) ==
  IF s # <<>> /\ Head(s) = "-" THEN StripLeadingHyphens(Tail(s)) ELSE s

RECURSIVE StripTrailingHyphens(_)
StripTrailingHyphens(s) ==
  IF s # <<>> /\ s[Len(s)] = "-"
  THEN StripTrailingHyphens(SubSeq(s, 1, Len(s) - 1)) ELSE s

\* .replace(/^-+|-+$/g, '')
StripHyphens(s) == StripTrailingHyphens(StripLeadingHyphens(s))

\* the slug the pre-save hook derives from a title
Slugify(title) ==
  StripHyphens(CollapseHyphens(SpacesToHyphens(RemoveSpecial(Trim(ToLowerCase(title))))))

(* ------------------------ schema field setters ------------------------ *)
\* title: { type: String, required, trim: true }
TitleSetter(t) == Trim(t)

\* slug: { type: String, unique, lowercase: true, trim: true }
SlugSetter(s) == Trim(ToLowerCase(s))

(* ------------------------------- dates -------------------------------- *)
\* A date string is held parsed into its parts.  kind is
\*   "date"    YYYY-MM-DD              (read as UTC midnight)
\*   "local"   YYYY-MM-DDTHH:mm        (read in the process's timezone)
\*   "offset"  YYYY-MM-DDTHH:mm+hh:mm  (off = minutes east of UTC)
\*   "invalid" a string new Date() cannot parse
DateStr(k, y, m, d, hh, mi, off) ==
  [kind |-> k, y |-> y, m |-> m, d |-> d, hh |-> hh, mi |-> mi, off |-> off]

IsoDate(y, m, d) == DateStr("date", y, m, d, 0, 0, 0)

InvalidDate == DateStr("invalid", 0, 0, 0, 0, 0, 0)

\* days since 1970-01-01 of a proleptic Gregorian date
DaysFromCivil(y, m, d) ==
  LET yy  == IF m <= 2 THEN y - 1 ELSE y
      era == yy \div 400
      yoe == yy - era * 400
      mp  == IF m > 2 THEN m - 3 ELSE m + 9
      doy == (153 * mp + 2) \div 5 + d - 1
      doe == yoe * 365 + yoe \div 4 - yoe \div 100 + doy
  IN era * 146097 + doe - 719468

CivilFromDays(z) ==
  LET zz  == z + 719468
      era == zz \div 146097
      doe == zz - era * 146097
      yoe == (doe - doe \div 1460 + doe \div 36524 - doe \div 146096) \div 365
      doy == doe - (365 * yoe + yoe \div 4 - yoe \div 100)
      mp  == (5 * doy + 2) \div 153
      d   == doy - (153 * mp + 2) \div 5 + 1
      m   == IF mp < 10 THEN mp + 3 ELSE mp - 9
      y   == yoe + era * 400 + (IF m <= 2 THEN 1 ELSE 0)
  IN IsoDate(y, m, d)

\* isNaN(new Date(s).getTime())
IsNaNDate(s) == s.kind = "invalid"

\* new Date(s).getTime(), in minutes since the epoch (UTC); tz is the
\* process's timezone, in minutes east of UTC
DateGetTime(s, tz) ==
  LET wall == DaysFromCivil(s.y, s.m, s.d) * 1440 + s.hh * 60 + s.mi
  IN CASE s.kind = "date"   -> wall
       [] s.kind = "local"  -> wall - tz
       [] s.kind = "offset" -> wall - s.off

\* dateObj.toISOString().split('T')[0]: the UTC calendar date
ToISODatePart(t) == CivilFromDays(t \div 1440)

(* -------------------------------- time -------------------------------- *)
Digit(c) == CASE c = "0" -> 0 [] c = "1" -> 1 [] c = "2" -> 2 [] c = "3" -> 3
              [] c = "4" -> 4 [] c = "5" -> 5 [] c = "6" -> 6 [] c = "7" -> 7
              [] c = "8" -> 8 [] c = "9" -> 9 [] OTHER -> -1

\* /^([0-1]?[0-9]|2[0-3]):[0-5][0-9]$/
TimeRegexTest(t) ==
  \E h \in 1..2 :
    /\ Len(t) = h + 3
    /\ t[h + 1] = ":"
    /\ Digit(t[h + 2]) \in 0..5
    /\ Digit(t[h + 3]) \in 0..9
    /\ \/ h = 1 /\ Digit(t[1]) \in 0..9
       \/ h = 2 /\ Digit(t[1]) \in 0..1 /\ Digit(t[2]) \in 0..9
       \/ h = 2 /\ Digit(t[1]) = 2 /\ Digit(t[2]) \in 0..3

(* --------------------------- pre-save hook ---------------------------- *)
\* this.isModified(path)
IsModified(d, path) == path \in d.modified

\* the slug regenerated on every save
HookSlugAlways(d) ==
  [d EXCEPT !.slug = SlugSetter(Slugify(d.title)), !.modified = @ \cup {"slug"}]

\* lines 110-118: the slug is regenerated when the title is new or modified
HookSlug(d) ==
  IF IsModified(d, "title")
  THEN [d EXCEPT !.slug = SlugSetter(Slugify(d.title)),
                 !.modified = @ \cup {"slug"}]
  ELSE d

\* lines 121-128: the date is validated and rewritten when it is modified
HookDateFails(d) == IsModified(d, "date") /\ IsNaNDate(d.date)

HookDate(d, tz) ==
  IF IsModified(d, "date")
  THEN [d EXCEPT !.date = ToISODatePart(DateGetTime(d.date, tz))]
  ELSE d

\* lines 131-136: the time is validated, never rewritten
HookTimeFails(d) == IsModified(d, "time") /\ ~TimeRegexTest(d.time)

\* the whole hook: the document as the hook leaves it, and the error it
\* hands to next(), if any
PreSave(d, tz) ==
  LET d1 == HookSlug(d)
  IN IF HookDateFails(d1) THEN [doc |-> d1, err |-> "Invalid date format"]
     ELSE LET d2 == HookDate(d1, tz)
          IN IF HookTimeFails(d2)
             THEN [doc |-> d2, err |-> "Time must be in HH:MM format"]
             ELSE [doc |-> d2, err |-> "none"]

\* the persisted form of a document
Stored(d) ==
  [id |-> d.id, title |-> d.title, slug |-> d.slug, date |-> d.date,
   time |-> d.time, organizer |-> d.organizer]

(* --------------------------- lookup handler --------------------------- *)
\* The slug parameter as the router hands it over: a string, or (the type
\* being unchecked at run time) undefined or a number.
StringParam(chars) == [type |-> "string", val |-> chars]

UndefinedParam == [type |-> "undefined", val |-> <<>>]

NumberParams == {[type |-> "number", val |-> <<"0">>], [type |-> "number", val |-> <<"1">>]}

\* !slug
Falsy(p) ==
  \/ p.type = "undefined"
  \/ p.type = "string" /\ p.val = <<>>
  \/ p.type = "number" /\ p.val = <<"0">>

\* the shape check without its whitespace test
ShapeInvalidNoTrim(p) == Falsy(p) \/ p.type # "string"

\* line 37: !slug || typeof slug !== 'string' || slug.trim() === ''
ShapeInvalid(p) == Falsy(p) \/ p.type # "string" \/ Trim(p.val) = <<>>

\* line 45: slug.trim().toLowerCase()
Sanitize(chars) == ToLowerCase(Trim(chars))

\* the pattern widened to word characters, /^[\w-]+$/
SlugPatternTestWord(s) ==
  s # <<>> /\ \A i \in 1..Len(s) : IsSlugChar(s[i]) \/ s[i] = "_"

\* lines 46-48: /^[a-z0-9-]+$/.test(s)
SlugPatternTest(s) == s # <<>> /\ \A i \in 1..Len(s) : IsSlugChar(s[i])

\* NextResponse.json(body, { status })
ErrorResponse(status, message) ==
  [status |-> status, error |-> message, success |-> FALSE, data |-> <<>>]

DataResponse(record) ==
  [status |-> 200, error |-> "", success |-> TRUE, data |-> <<record>>]

NoResponse == [status |-> 0, error |-> "", success |-> FALSE, data |-> <<>>]

\* A thrown value: its name, whether its message contains 'MONGODB_URI',
\* whether it is an instance of Error, and where it was thrown.
Thrown(name, mentionsUri, isError, origin) ==
  [name |-> name, mentionsUri |-> mentionsUri, isError |-> isError, origin |-> origin]

NoError == Thrown("none", FALSE, FALSE, "none")

\* line 8: new Error('MONGODB_URI environment variable is not defined')
MissingUriError == Thrown("Error", TRUE, TRUE, "config")

\* what connect() or findOne() may reject with
StorageErrors(origin) ==
  {Thrown(n, u, TRUE, origin) :
     n \in {"Error", "CastError", "ValidationError"}, u \in BOOLEAN}
  \cup {Thrown("CastError", FALSE, FALSE, origin)}

\* connectToDatabase with the cached-connection check made first
ConnectToDatabaseCacheFirst(uriSet, cached) ==
  IF cached THEN "return"
  ELSE IF ~uriSet THEN "throw"
  ELSE "connect"

\* lines 6-17: what connectToDatabase does, given whether MONGODB_URI is
\* set and whether global.mongoose?.conn is set
ConnectToDatabase(uriSet, cached) ==
  IF ~uriSet THEN "throw"
  ELSE IF cached THEN "return"
  ELSE "connect"

\* lines 74-102: the catch block
HandleError(e) ==
  IF e.isError /\ e.mentionsUri
  THEN ErrorResponse(500, "Database configuration error")
  ELSE IF e.isError /\ e.name \in {"CastError", "ValidationError"}
  THEN ErrorResponse(400, "Invalid request parameters")
  ELSE ErrorResponse(500, "Internal server error")

\* a query that drops its filter
FindOneUnfiltered(coll, slug) ==
  IF coll = {} THEN <<>> ELSE <<CHOOSE r \in coll : TRUE>>

\* line 59: Event.findOne({ slug }).lean() over a collection
FindOne(coll, slug) ==
  LET hits == {r \in coll : r.slug = slug}
  IN IF hits = {} THEN <<>> ELSE <<CHOOSE r \in hits : TRUE>>

\* lines 62-73
QueryResponse(found) ==
  IF found = <<>> THEN ErrorResponse(404, "Event not found")
  ELSE DataResponse(found[1])

\* global.mongoose?.conn once a connect() has resolved, given what it was:
\* the handler never writes the cache itself, and the module that fills it
\* is not among the sources, so it may be set by then or left as it was
CacheConnection(cached) == {cached, TRUE}

(* ------------------------------- state -------------------------------- *)
VARIABLES
  env,            \* process.env.MONGODB_URI is set
  conn,           \* global.mongoose?.conn is set
  everConnected,  \* history: some connect() has resolved
  attempts,       \* history: number of connect() calls started
  db,             \* the events collection
  req,            \* the GET requests in flight, by request id
  doc,            \* the candidate document a writer holds
  lastSave,       \* history: the document before the last save and its outcome
  tz              \* the process's timezone, minutes east of UTC

vars == <<env, conn, everConnected, attempts, db, req, doc, lastSave, tz>>

httpVars == <<env, conn, everConnected, attempts, req>>

Reqs == 1..NumReqs

IdleRequest ==
  [pc |-> "idle", raw |-> UndefinedParam, sanitized |-> <<>>,
   resp |-> NoResponse, err |-> NoError,
   envAtStart |-> FALSE, connectedAtStart |-> FALSE]

ValidTime == <<"0", "9", ":", "3", "0">>

NewDocument(title, date, time) ==
  [id |-> 1, title |-> TitleSetter(title), slug |-> <<>>, date |-> date,
   time |-> time, organizer |-> "o1",
   modified |-> {"title", "date", "time", "organizer"}]

NoSave == [outcome |-> "none", before |-> NewDocument(<<>>, InvalidDate, <<>>)]

(* --------------------------- handler actions -------------------------- *)
Respond(r, raw, response, e) ==
  req' = [req EXCEPT ![r] =
            [pc |-> "done", raw |-> raw, sanitized |-> @.sanitized,
             resp |-> response, err |-> e,
             envAtStart |-> @.envAtStart,
             connectedAtStart |-> @.connectedAtStart]]

\* lines 33-56: from the arrival of the request to the first await on storage
Begin(r, raw) ==
  /\ req[r].pc = "idle"
  /\ UNCHANGED <<env, conn, everConnected, db, doc, lastSave, tz>>
  /\ LET start == [IdleRequest EXCEPT !.raw = raw, !.envAtStart = env,
                                      !.connectedAtStart = everConnected]
     IN IF ShapeInvalid(raw)
        THEN /\ req' = [req EXCEPT ![r] =
                   [start EXCEPT !.pc = "done",
                      !.resp = ErrorResponse(400, "Invalid slug parameter")]]
             /\ UNCHANGED attempts
        ELSE IF ~SlugPatternTest(Sanitize(raw.val))
        THEN /\ req' = [req EXCEPT ![r] =
                   [start EXCEPT !.pc = "done",
                      !.resp = ErrorResponse(400, "Slug contains invalid characters")]]
             /\ UNCHANGED attempts
        ELSE LET s == [start EXCEPT !.sanitized = Sanitize(raw.val)]
                 c == ConnectToDatabase(env, conn)
             IN CASE c = "throw" ->
                       /\ req' = [req EXCEPT ![r] =
                             [s EXCEPT !.pc = "done", !.err = MissingUriError,
                                       !.resp = HandleError(MissingUriError)]]
                       /\ UNCHANGED attempts
                  [] c = "return" ->
                       /\ req' = [req EXCEPT ![r] = [s EXCEPT !.pc = "querying"]]
                       /\ UNCHANGED attempts
                  [] c = "connect" ->
                       /\ attempts < MaxAttempts
                       /\ attempts' = attempts + 1
                       /\ req' = [req EXCEPT ![r] = [s EXCEPT !.pc = "connecting"]]

\* line 16 resolves: connect() succeeded; line 59 starts the query
ConnectOk(r) ==
  /\ req[r].pc = "connecting"
  /\ conn' \in CacheConnection(conn)
  /\ everConnected' = TRUE
  /\ req' = [req EXCEPT ![r].pc = "querying"]
  /\ UNCHANGED <<env, attempts, db, doc, lastSave, tz>>

\* line 16 rejects
ConnectFail(r, e) ==
  /\ req[r].pc = "connecting"
  /\ Respond(r, req[r].raw, HandleError(e), e)
  /\ UNCHANGED <<env, conn, everConnected, attempts, db, doc, lastSave, tz>>

\* line 59 resolves, lines 62-73
QueryOk(r) ==
  /\ req[r].pc = "querying"
  /\ Respond(r, req[r].raw, QueryResponse(FindOne(db, req[r].sanitized)), NoError)
  /\ UNCHANGED <<env, conn, everConnected, attempts, db, doc, lastSave, tz>>

\* line 59 rejects
QueryFail(r, e) ==
  /\ req[r].pc = "querying"
  /\ Respond(r, req[r].raw, HandleError(e), e)
  /\ UNCHANGED <<env, conn, everConnected, attempts, db, doc, lastSave, tz>>

\* the response has been returned to the framework; the request is over
Return(r) ==
  /\ req[r].pc = "done"
  /\ req' = [req EXCEPT ![r] = IdleRequest]
  /\ UNCHANGED <<env, conn, everConnected, attempts, db, doc, lastSave, tz>>

\* the environment: the connection string is set or removed
SetEnv(b) ==
  /\ env # b
  /\ env' = b
  /\ UNCHANGED <<conn, everConnected, attempts, db, req, doc, lastSave, tz>>

(* --------------------------- writer actions --------------------------- *)
\* doc.title = t  (the schema trims it)
SetTitle(t) ==
  /\ TitleSetter(t) # doc.title
  /\ doc' = [doc EXCEPT !.title = TitleSetter(t), !.modified = @ \cup {"title"}]
  /\ lastSave' = NoSave
  /\ UNCHANGED <<httpVars, db, tz>>

\* doc.slug = s  (the schema lowercases and trims it)
SetSlug(s) ==
  /\ SlugSetter(s) # doc.slug
  /\ doc' = [doc EXCEPT !.slug = SlugSetter(s), !.modified = @ \cup {"slug"}]
  /\ lastSave' = NoSave
  /\ UNCHANGED <<httpVars, db, tz>>

SetDate(d) ==
  /\ d # doc.date
  /\ doc' = [doc EXCEPT !.date = d, !.modified = @ \cup {"date"}]
  /\ lastSave' = NoSave
  /\ UNCHANGED <<httpVars, db, tz>>

SetTime(t) ==
  /\ t # doc.time
  /\ doc' = [doc EXCEPT !.time = t, !.modified = @ \cup {"time"}]
  /\ lastSave' = NoSave
  /\ UNCHANGED <<httpVars, db, tz>>

SetOrganizer(o) ==
  /\ o # doc.organizer
  /\ doc' = [doc EXCEPT !.organizer = o, !.modified = @ \cup {"organizer"}]
  /\ lastSave' = NoSave
  /\ UNCHANGED <<httpVars, db, tz>>

\* doc.save(): required-field validation, the pre-save hook, then the write
Save ==
  /\ UNCHANGED <<httpVars, tz>>
  /\ IF doc.title = <<>>
     THEN /\ lastSave' = [outcome |-> "Title is required", before |-> doc]
          /\ UNCHANGED <<doc, db>>
     ELSE LET h == PreSave(doc, tz)
          IN IF h.err # "none"
             THEN /\ lastSave' = [outcome |-> h.err, before |-> doc]
                  /\ doc' = h.doc
                  /\ UNCHANGED db
             ELSE /\ lastSave' = [outcome |-> "saved", before |-> doc]
                  /\ doc' = [h.doc EXCEPT !.modified = {}]
                  /\ db' = {r \in db : r.id # doc.id} \cup {Stored(h.doc)}

(* ------------------------------- inputs ------------------------------- *)
\* the slug parameters a request may carry
RawParams == {StringParam(c) : c \in Strs(MaxSlugLen)} \cup {UndefinedParam} \cup NumberParams

\* the slug parameters of the concurrent requests
ConcParams == {StringParam(<<"a">>), StringParam(<<" ", "A", "1">>), StringParam(<<"-">>)}

EventA ==
  [id |-> 1, title |-> <<"A">>, slug |-> <<"a">>, date |-> IsoDate(2024, 1, 1),
   time |-> ValidTime, organizer |-> "o1"]

EventB ==
  [id |-> 2, title |-> <<"A", " ", "1">>, slug |-> <<"a", "1">>,
   date |-> IsoDate(2024, 2, 29), time |-> ValidTime, organizer |-> "o2"]

\* the collections a lookup may run against
LookupCollections == {{}, {EventA}, {EventA, EventB}}

HookTitles == {<<"A", " ", "!", "a">>, <<"a", "_", "1">>}

HookSlugs == {<<"A", "-", "1">>}

Days == {<<1, 1>>, <<12, 31>>}

Offsets == {-300, 330}

DateInputs ==
  {IsoDate(2024, md[1], md[2]) : md \in Days}
  \cup {DateStr("local", 2024, md[1], md[2], h, 0, 0) : md \in Days, h \in {0, 23}}
  \cup {DateStr("offset", 2024, md[1], md[2], 23, 0, -300) : md \in Days}
  \cup {DateStr("offset", 2024, md[1], md[2], 0, 15, 330) : md \in Days}
  \cup {InvalidDate}

Timezones == {0} \cup Offsets

TimeInputs == {ValidTime, <<"2", "4", ":", "0", "0">>}

Organizers == {"o1", "o2"}

(* --------------------------- specifications --------------------------- *)
IdleProcess ==
  /\ conn = FALSE
  /\ everConnected = FALSE
  /\ attempts = 0
  /\ req = [r \in Reqs |-> IdleRequest]

NoWriter ==
  /\ doc = NewDocument(<<>>, InvalidDate, <<>>)
  /\ lastSave = NoSave
  /\ tz = 0

\* one request at a time against a fixed collection, the connection string
\* set or not, storage calls succeeding or failing
Init ==
  /\ IdleProcess
  /\ NoWriter
  /\ env \in BOOLEAN
  /\ db \in LookupCollections

Next ==
  \/ \E raw \in RawParams : Begin(1, raw)
  \/ ConnectOk(1)
  \/ \E e \in StorageErrors("connect") : ConnectFail(1, e)
  \/ QueryOk(1)
  \/ \E e \in StorageErrors("query") : QueryFail(1, e)
  \/ Return(1)
  \/ \E b \in BOOLEAN : SetEnv(b)

Spec == Init /\ [][Next]_vars

\* several requests interleaving at their awaits, the connection string set
\* and storage calls succeeding
InitConc ==
  /\ IdleProcess
  /\ NoWriter
  /\ env = TRUE
  /\ db \in LookupCollections

NextConc ==
  \/ \E r \in Reqs, raw \in ConcParams : Begin(r, raw)
  \/ \E r \in Reqs : ConnectOk(r)
  \/ \E r \in Reqs : QueryOk(r)
  \/ \E r \in Reqs : Return(r)

SpecConc == InitConc /\ [][NextConc]_vars

\* a writer creating a document and then updating and saving it repeatedly
InitHook ==
  /\ IdleProcess
  /\ env = TRUE
  /\ db = {}
  /\ lastSave = NoSave
  /\ tz \in Timezones
  /\ \E t \in HookTitles, d \in DateInputs, tm \in TimeInputs :
       doc = NewDocument(t, d, tm)

NextHook ==
  \/ \E t \in HookTitles : SetTitle(t)
  \/ \E s \in HookSlugs : SetSlug(s)
  \/ \E d \in DateInputs : SetDate(d)
  \/ \E tm \in TimeInputs : SetTime(tm)
  \/ \E o \in Organizers : SetOrganizer(o)
  \/ Save

SpecHook == InitHook /\ [][NextHook]_vars

\* a document created from any title, saved, then looked up by its slug
InitSlug ==
  /\ IdleProcess
  /\ env = TRUE
  /\ db = {}
  /\ lastSave = NoSave
  /\ tz = 0
  /\ \E t \in Strs(MaxTitleLen) : doc = NewDocument(t, IsoDate(2024, 1, 1), ValidTime)

NextSlug ==
  \/ Save
  \/ \E e \in db : Begin(1, StringParam(e.slug))
  \/ ConnectOk(1)
  \/ QueryOk(1)
  \/ Return(1)

SpecSlug == InitSlug /\ [][NextSlug]_vars

(* ------------------------------- claims ------------------------------- *)
Done(r) == req[r].pc = "done"

\* the request's slug is missing, not a string, empty or only whitespace
BadShape(p) == p.type # "string" \/ \A i \in 1..Len(p.val) : p.val[i] = " "

\* the trimmed, lowercased request slug
Canonical(p) == Trim(ToLowerCase(p.val))

\* the canonical slug matches ^[a-z0-9-]+$
GoodCharset(p) ==
  Canonical(p) # <<>> /\ \A i \in 1..Len(Canonical(p)) : Canonical(p)[i] \in {"a", "1", "-"}

\* C1: a GET whose slug passes validation, with the connection string set
\* and storage succeeding, answers 200 {success: true, data: R}, R the
\* stored record whose slug is the trimmed, lowercased request slug, or
\* 404 {error: "Event not found"} without data when there is none.
C1_LookupResult ==
  \A r \in Reqs :
    (/\ Done(r)
     /\ ~BadShape(req[r].raw)
     /\ GoodCharset(req[r].raw)
     /\ req[r].envAtStart
     /\ req[r].err = NoError)
    => LET hits == {e \in db : e.slug = Canonical(req[r].raw)}
       IN IF hits = {}
          THEN /\ req[r].resp.status = 404
               /\ req[r].resp.error = "Event not found"
               /\ req[r].resp.data = <<>>
          ELSE /\ req[r].resp.status = 200
               /\ req[r].resp.success
               /\ \E e \in hits : req[r].resp.data = <<e>>

\* a slug that had to be trimmed and lowercased found its record
C1_Witness ==
  \E r \in Reqs :
    /\ Done(r)
    /\ req[r].resp.status = 200
    /\ req[r].resp.data # <<>>
    /\ req[r].raw.val # req[r].resp.data[1].slug
    /\ Cardinality(db) > 1

\* C2: in every state of the process a GET whose slug is missing, not a
\* string, empty or whitespace-only answers 400 {error: "Invalid slug
\* parameter"}.
C2_InvalidSlugParameter ==
  \A r \in Reqs :
    (Done(r) /\ BadShape(req[r].raw))
    => /\ req[r].resp.status = 400
       /\ req[r].resp.error = "Invalid slug parameter"
       /\ req[r].resp.data = <<>>

\* a whitespace-only slug was refused in a connected process
C2_Witness ==
  \E r \in Reqs :
    /\ Done(r)
    /\ req[r].raw.type = "string"
    /\ req[r].raw.val # <<>>
    /\ BadShape(req[r].raw)
    /\ req[r].connectedAtStart
    /\ req[r].resp.error = "Invalid slug parameter"

\* C3: a GET whose slug passes the shape check but whose trimmed,
\* lowercased form does not match ^[a-z0-9-]+$ answers 400 {error: "Slug
\* contains invalid characters"}, and a slug whose form matches never gets
\* that answer.
C3_InvalidCharacters ==
  \A r \in Reqs :
    /\ (Done(r) /\ ~BadShape(req[r].raw) /\ ~GoodCharset(req[r].raw))
       => /\ req[r].resp.status = 400
          /\ req[r].resp.error = "Slug contains invalid characters"
    /\ (Done(r) /\ ~BadShape(req[r].raw) /\ GoodCharset(req[r].raw))
       => req[r].resp.error # "Slug contains invalid characters"

\* a slug with an underscore, changed by the trim or the lowercasing, was
\* refused
C3_Witness ==
  \E r \in Reqs :
    /\ Done(r)
    /\ req[r].raw.type = "string"
    /\ \E i \in 1..Len(req[r].raw.val) : req[r].raw.val[i] = "_"
    /\ Canonical(req[r].raw) # req[r].raw.val
    /\ req[r].resp.error = "Slug contains invalid characters"

\* C4 as claimed: once some request has connected, no later valid-slug
\* request has the configuration check fail on it and answer 500
\* "Database configuration error".
C4_NoConfigCheckAfterConnect ==
  \A r \in Reqs :
    (Done(r) /\ req[r].connectedAtStart)
    => ~(/\ req[r].err = MissingUriError
         /\ req[r].resp.error = "Database configuration error")

\* C4 as amended: the configuration check is made on every valid-slug
\* request, before the cached connection is looked at; a valid-slug
\* request that starts while the connection string is not set answers 500
\* {error: "Database configuration error"}, whether or not an earlier
\* request has connected.
C4_ConfigCheckedEveryRequest ==
  \A r \in Reqs :
    (Done(r) /\ ~BadShape(req[r].raw) /\ GoodCharset(req[r].raw) /\ ~req[r].envAtStart)
    => /\ req[r].resp.status = 500
       /\ req[r].resp.error = "Database configuration error"
       /\ req[r].err = MissingUriError

\* a request that started after a successful connection, with the
\* connection string removed, was answered with the configuration error
C4_Witness ==
  \E r \in Reqs :
    /\ Done(r)
    /\ req[r].connectedAtStart
    /\ conn
    /\ ~req[r].envAtStart
    /\ req[r].resp.error = "Database configuration error"

\* C5: every error thrown while connecting or querying is answered by its
\* kind, whatever its message: ValidationError and CastError with 400
\* "Invalid request parameters", the missing-configuration error with 500
\* "Database configuration error", any other with 500 "Internal server
\* error".
C5_ErrorMapping ==
  \A r \in Reqs :
    (Done(r) /\ req[r].err # NoError /\ req[r].err.isError)
    => req[r].resp =
         IF req[r].err.name \in {"CastError", "ValidationError"}
         THEN [status |-> 400, error |-> "Invalid request parameters",
               success |-> FALSE, data |-> <<>>]
         ELSE IF req[r].err.origin = "config"
         THEN [status |-> 500, error |-> "Database configuration error",
               success |-> FALSE, data |-> <<>>]
         ELSE [status |-> 500, error |-> "Internal server error",
               success |-> FALSE, data |-> <<>>]

\* C9: with the connection string set and storage succeeding, over any
\* interleaving of valid-slug requests connect() is called at most once.
C9_ConnectAtMostOnce == attempts <= 1

\* the title was modified in the last, successful save
SavedWithTitle ==
  /\ lastSave.outcome = "saved"
  /\ "title" \in lastSave.before.modified
  /\ lastSave.before.title # <<>>

\* C6: the slug derived from a non-empty title is the same on every
\* derivation, holds only characters of [a-z0-9-], and has no leading, no
\* trailing and no two adjacent hyphens.
C6_SlugWellFormed ==
  SavedWithTitle
  => /\ doc.slug = Slugify(lastSave.before.title)
     /\ \A i \in 1..Len(doc.slug) : doc.slug[i] \in {"a", "1", "-"}
     /\ doc.slug # <<>> => doc.slug[1] # "-" /\ doc.slug[Len(doc.slug)] # "-"
     /\ \A i \in 1..(Len(doc.slug) - 1) : ~(doc.slug[i] = "-" /\ doc.slug[i + 1] = "-")

\* C10: the slug of every event saved through the hook passes the lookup
\* handler's validation: a GET for it, storage succeeding, answers 200
\* with that event (stated for the events whose slug is not empty).
C10_SavedEventRetrievable ==
  \A r \in Reqs :
    \A e \in db :
      (/\ Done(r)
       /\ e.slug # <<>>
       /\ req[r].raw = StringParam(e.slug)
       /\ req[r].err = NoError)
      => /\ req[r].resp.status = 200
         /\ req[r].resp.data = <<e>>

\* C7: a save with the date modified stores, for an input that denotes a
\* calendar date (with or without a time of day and a timezone), that
\* calendar date as YYYY-MM-DD; for an unparsable input it is aborted with
\* "Invalid date format".
C7_DateNormalised ==
  ("date" \in lastSave.before.modified /\ lastSave.outcome # "none"
     /\ lastSave.before.title # <<>>)
  => IF lastSave.before.date.kind = "invalid"
     THEN lastSave.outcome = "Invalid date format"
     ELSE lastSave.outcome = "saved"
          => doc.date = IsoDate(lastSave.before.date.y, lastSave.before.date.m,
                                lastSave.before.date.d)

\* C8: a save rewrites the slug only when the title is modified and the
\* date only when the date is modified, never rewrites the time, and
\* leaves every other field of the document as it was.
C8_HookFrame ==
  [][Save =>
       /\ "title" \notin doc.modified => doc'.slug = doc.slug
       /\ "date" \notin doc.modified => doc'.date = doc.date
       /\ doc'.time = doc.time
       /\ doc'.title = doc.title
       /\ doc'.organizer = doc.organizer
       /\ doc'.id = doc.id]_vars

\* a save that modified neither title nor date went through and kept a
\* slug that is not the one the title would give
C8_Witness ==
  /\ lastSave.outcome = "saved"
  /\ lastSave.before.modified # {}
  /\ "title" \notin lastSave.before.modified
  /\ "date" \notin lastSave.before.modified
  /\ lastSave.before.slug # SlugSetter(Slugify(lastSave.before.title))
  /\ doc.slug = lastSave.before.slug
  /\ doc.date = lastSave.before.date

=============================================================================
